---- MODULE Spec2Model ----
\* Model of the projector assignment service (ProjectorService) of the OpenSlides
\* client: the projectors held by the data store, the service's operations on
\* them and the requests each operation posts; and of the login mask
\* (LoginMaskComponent): its form, its watch of the operator and its calls
\* of the authentication service.
EXTENDS Integers, Sequences, FiniteSets, TLC

VARIABLES
    projectors,   \* DS.getAll('core/projector'): id -> the store's projector object
    sent,         \* the requests posted through http.post by the last operation, in order
    thrown,       \* TRUE iff the last operation or handler raised an error
    last,         \* the last operation invoked and its arguments
    trip,         \* progress of a projectPreviousSlide immediately followed by projectNextSlide
    remote,       \* the server and the way to it
    loginMask     \* the login mask and the services it works with

\* The server's projectors, which its updates bring to the store.
server == remote.server

\* The requests posted that the server has yet to apply, in order.
inflight == remote.inflight

\* The LoginMaskComponent: its fields and where it is in its life.
component == loginMask.component

\* The OperatorService: the user, guestsEnabled and the watch of the component.
operator == loginMask.operator

\* The AuthService: its login operation and the calls the last handler made.
authService == loginMask.authService

\* The OverlayService: the spinner shown, if any.
overlayService == loginMask.overlayService

\* The projector service and what it works with.
projecting == <<projectors, sent, trip, remote>>

vars == <<projectors, sent, thrown, last, trip, remote, loginMask>>

\* ---------------------------------------------------------------- bounds

\* Largest size (shown and queued elements, and the history) of the projector
\* of a store that holds one projector.
MaxTotal == 3

\* Largest total size of the projectors of a store that holds several.
MaxStore == 2

\* Most requests on their way to the server at a time.
MaxInflight == 2

\* Most calls of redirectUser by the login mask that are followed.
MaxRedirects == 2

\* ---------------------------------------------------------------- data

\* ProjectorElement: name, id and the stable flag.
Elements ==
    { [name |-> "A", id |-> 0, stable |-> TRUE],
      [name |-> "B", id |-> 1, stable |-> FALSE],
      [name |-> "C", id |-> 2, stable |-> FALSE] }

\* What the operations accept as obj: a Projectable (its slide builds the
\* element), a ProjectorElementBuildDeskriptor, or the element itself.
Objs ==
    { [kind |-> "projectable", element |-> [name |-> "A", id |-> 0, stable |-> TRUE]],
      [kind |-> "descriptor",  element |-> [name |-> "B", id |-> 1, stable |-> FALSE]],
      [kind |-> "element",     element |-> [name |-> "C", id |-> 2, stable |-> FALSE]] }

\* An optional argument: null or undefined is None, a given value x is Some(x).
None == <<>>

Some(x) == <<x>>

\* body for the value of an expression that body uses more than once.
With(value, body(_)) == body(value)

Max(a, b) == IF a >= b THEN a ELSE b

Min(a, b) == IF a <= b THEN a ELSE b

SeqsUpTo(S, n) == UNION { [1..k -> S] : k \in 0..Max(n, 0) }

RECURSIVE Reverse(_)
Reverse(s) == IF s = <<>> THEN <<>> ELSE Reverse(Tail(s)) \o <<Head(s)>>

\* ---------------------------------------------------------------- Projector

\* Two elements identify the same slide when their identifying fields agree.
elementIdentifies(a, b) == a.name = b.name /\ a.id = b.id

\* Projector.isElementShown
isElementShown(projector, element) ==
    \E i \in 1..Len(projector.elements) :
        elementIdentifies(element, projector.elements[i])

\* Projector.addElement
addElement(projector, element) ==
    [projector EXCEPT !.elements = Append(@, element)]

\* Projector.removeAllNonStableElements: the projector without its non-stable
\* elements, and the removed elements in the order they were shown.
removeAllNonStableElements(projector) ==
    [projector |-> [projector EXCEPT !.elements = SelectSeq(@, LAMBDA x : x.stable)],
     removed   |-> SelectSeq(projector.elements, LAMBDA x : ~x.stable)]

\* The projector after the call and the removedElements it returned.
Removed(r, body(_, _)) == body(r.projector, r.removed)

\* Projector.removeElements: the projector without the elements identified by
\* element, and the removed elements in the order they were shown.
removeElements(projector, element) ==
    [projector |-> [projector EXCEPT
                       !.elements = SelectSeq(@, LAMBDA x : ~elementIdentifies(element, x))],
     removed   |-> SelectSeq(projector.elements, LAMBDA x : elementIdentifies(element, x))]

\* Array.prototype.splice(start, 1): a negative start counts from the end of
\* the array, and both ends are clamped to the array.
splice(array, start) ==
    LET len   == Len(array)
        from  == IF start < 0 THEN Max(len + start, 0) ELSE Min(start, len)
        count == Min(1, len - from)
    IN  [removed |-> SubSeq(array, from + 1, from + count),
         array   |-> SubSeq(array, 1, from) \o SubSeq(array, from + count + 1, len)]

\* Array.prototype.unshift of every element of removedElements in turn.
unshiftAll(array, removedElements) == Reverse(removedElements) \o array

\* ---------------------------------------------------------------- ProjectorService

getProjectorElement(obj) ==
    IF obj.kind = "projectable" THEN obj.element
    ELSE IF obj.kind = "descriptor" THEN obj.element
    ELSE obj.element

Path(id) == <<"/rest/core/projector/", id, "/project/">>

\* One field of requestData, set when cond holds.
Field(cond, key, value) == IF cond THEN key :> value ELSE <<>>

\* projectRequest: what is posted (at most one request) and whether it throws.
\* projectRequest as it would be without the check of its two history arguments.
projectRequestUnchecked(projector, elements, preview, appendToHistory, deleteLastHistroyElement) ==
    With(appendToHistory # None /\ Len(appendToHistory[1]) > 0, LAMBDA appending :
        [posted |-> <<[path |-> Path(projector.id),
                       body |-> Field(elements # None, "elements", elements[1])
                                @@ Field(preview # None, "preview", preview[1])
                                @@ Field(appending, "append_to_history",
                                         appendToHistory[1])
                                @@ Field(deleteLastHistroyElement,
                                         "delete_last_history_element", TRUE)]>>,
         thrown |-> FALSE])

projectRequest(projector, elements, preview, appendToHistory, deleteLastHistroyElement) ==
    With(appendToHistory # None /\ Len(appendToHistory[1]) > 0, LAMBDA appending :
        IF appending /\ deleteLastHistroyElement
        THEN [posted |-> <<>>, thrown |-> TRUE]
        ELSE [posted |-> <<[path |-> Path(projector.id),
                            body |-> Field(elements # None, "elements", elements[1])
                                     @@ Field(preview # None, "preview", preview[1])
                                     @@ Field(appending, "append_to_history",
                                              appendToHistory[1])
                                     @@ Field(deleteLastHistroyElement,
                                              "delete_last_history_element", TRUE)]>>,
              thrown |-> FALSE])

\* The outcome of an operation on one projector.
Outcome(projector, request) ==
    [projector |-> projector, requests |-> request.posted, thrown |-> request.thrown]

Untouched(projector) ==
    [projector |-> projector, requests |-> <<>>, thrown |-> FALSE]

isProjectedOn(obj, projector) == isElementShown(projector, getProjectorElement(obj))

isProjected(obj) ==
    \E id \in DOMAIN projectors :
        isElementShown(projectors[id], getProjectorElement(obj))

getProjectorsWhichAreProjecting(obj) ==
    { id \in DOMAIN projectors :
        isElementShown(projectors[id], getProjectorElement(obj)) }

\* An operation that ends by posting what it has made of the projector.
Post(p, elements, preview, appendToHistory, deleteLastHistroyElement) ==
    Outcome(p, projectRequest(p, IF elements THEN Some(p.elements) ELSE None,
                              IF preview THEN Some(p.elements_preview) ELSE None,
                              appendToHistory, deleteLastHistroyElement))

\* projectOn as it would be if the removed elements were not handed to the request.
projectOnWithoutHistory(projector, obj) ==
    With(getProjectorElement(obj), LAMBDA element :
        IF element.stable
        THEN Post(addElement(projector, element), TRUE, FALSE, None, FALSE)
        ELSE Removed(removeAllNonStableElements(projector), LAMBDA q, removedElements :
                Post(addElement(q, element), TRUE, FALSE, None, FALSE)))

\* projectOn as it would be if stable elements took the non-stable branch too.
projectOnEvicting(projector, obj) ==
    With(getProjectorElement(obj), LAMBDA element :
        Removed(removeAllNonStableElements(projector), LAMBDA q, removedElements :
            Post(addElement(q, element), TRUE, FALSE, Some(removedElements), FALSE)))

projectOn(projector, obj) ==
    With(getProjectorElement(obj), LAMBDA element :
        IF element.stable
        THEN \* Just add this stable element
             Post(addElement(projector, element), TRUE, FALSE, None, FALSE)
        ELSE Removed(removeAllNonStableElements(projector), LAMBDA q, removedElements :
                \* element is an object (its stable field was read above), hence truthy
                With(TRUE, LAMBDA given :
                    With(Len(removedElements) > 0 \/ given, LAMBDA changed :
                        IF changed
                        THEN Post(IF given THEN addElement(q, element) ELSE q,
                                  TRUE, FALSE, Some(removedElements), FALSE)
                        ELSE Untouched(q)))))

\* removeFrom as it would be if only the first occurrence were removed.
removeFromFirst(projector, obj) ==
    LET element == getProjectorElement(obj)
        found == { i \in 1..Len(projector.elements) :
                     elementIdentifies(element, projector.elements[i]) }
        first == CHOOSE i \in found : \A j \in found : i <= j
        p == [projector EXCEPT !.elements =
                 SubSeq(@, 1, first - 1) \o SubSeq(@, first + 1, Len(@))]
    IN  IF found # {}
        THEN IF element.stable
             THEN Post(p, TRUE, FALSE, None, FALSE)
             ELSE Post(p, TRUE, FALSE, Some(<<projector.elements[first]>>), FALSE)
        ELSE Untouched(projector)

removeFrom(projector, obj) ==
    With(getProjectorElement(obj), LAMBDA element :
        Removed(removeElements(projector, element), LAMBDA p, removedElements :
            IF Len(removedElements) > 0
            THEN IF element.stable
                 THEN Post(p, TRUE, FALSE, None, FALSE)
                 ELSE \* For non-stable elements: add removed elements to the history
                      Post(p, TRUE, FALSE, Some(removedElements), FALSE)
            ELSE Untouched(p)))

\* The projector with the element at previewIndex moved from the preview to elements.
showPreview(q, s) ==
    addElement([q EXCEPT !.elements_preview = s.array], s.removed[1])

\* projectPreviewSlide as it would be if it took every element shown off.
projectPreviewSlideClearing(projector, previewIndex) ==
    IF Len(projector.elements_preview) = 0
       \/ previewIndex >= Len(projector.elements_preview)
    THEN Untouched(projector)
    ELSE Removed(removeAllNonStableElements(projector), LAMBDA q, removedElements :
            Post(showPreview([q EXCEPT !.elements = <<>>],
                             splice(q.elements_preview, previewIndex)),
                 TRUE, TRUE, Some(removedElements), FALSE))

\* projectPreviewSlide as it would be if it always took the head of the preview.
projectPreviewSlideHead(projector, previewIndex) ==
    IF Len(projector.elements_preview) = 0
       \/ previewIndex >= Len(projector.elements_preview)
    THEN Untouched(projector)
    ELSE Removed(removeAllNonStableElements(projector), LAMBDA q, removedElements :
            Post(showPreview(q, splice(q.elements_preview, 0)),
                 TRUE, TRUE, Some(removedElements), FALSE))

projectPreviewSlide(projector, previewIndex) ==
    IF Len(projector.elements_preview) = 0
       \/ previewIndex >= Len(projector.elements_preview)
    THEN Untouched(projector)
    ELSE Removed(removeAllNonStableElements(projector), LAMBDA q, removedElements :
            Post(showPreview(q, splice(q.elements_preview, previewIndex)),
                 TRUE, TRUE, Some(removedElements), FALSE))

projectNextSlide(projector) == projectPreviewSlide(projector, 0)

\* The last entry of the history, and its first element if it has one.
lastElementOf(projector) ==
    With(projector.elements_history[Len(projector.elements_history)], LAMBDA lastElements :
        IF Len(lastElements) > 0 THEN Some(lastElements[1]) ELSE None)

\* projectPreviousSlide as it would be if its request did not ask for the
\* deletion of the last history entry.
projectPreviousSlideNoDelete(projector) ==
    IF Len(projector.elements_history) = 0
    THEN Untouched(projector)
    ELSE With(lastElementOf(projector), LAMBDA lastElement :
          Removed(removeAllNonStableElements(projector), LAMBDA q, removedElements :
            With([q EXCEPT !.elements_preview = unshiftAll(@, removedElements)], LAMBDA p :
              Post(IF lastElement # None THEN addElement(p, lastElement[1]) ELSE p,
                   TRUE, TRUE, None, FALSE))))

\* projectPreviousSlide as it would be if the elements shown were queued at the
\* end of the preview.
projectPreviousSlideQueueing(projector) ==
    IF Len(projector.elements_history) = 0
    THEN Untouched(projector)
    ELSE With(lastElementOf(projector), LAMBDA lastElement :
          Removed(removeAllNonStableElements(projector), LAMBDA q, removedElements :
            With([q EXCEPT !.elements_preview = @ \o removedElements], LAMBDA p :
              Post(IF lastElement # None THEN addElement(p, lastElement[1]) ELSE p,
                   TRUE, TRUE, None, TRUE))))

\* projectPreviousSlide as it would be if the elements shown were left in place.
projectPreviousSlideKeeping(projector) ==
    IF Len(projector.elements_history) = 0
    THEN Untouched(projector)
    ELSE With(lastElementOf(projector), LAMBDA lastElement :
            Post(IF lastElement # None
                 THEN addElement(projector, lastElement[1]) ELSE projector,
                 TRUE, TRUE, None, TRUE))

projectPreviousSlide(projector) ==
    IF Len(projector.elements_history) = 0
    THEN Untouched(projector)
    ELSE \* Get the last element from the history
         With(lastElementOf(projector), LAMBDA lastElement :
          \* Add all current elements to the preview
          Removed(removeAllNonStableElements(projector), LAMBDA q, removedElements :
            With([q EXCEPT !.elements_preview = unshiftAll(@, removedElements)], LAMBDA p :
              \* Add last element
              Post(IF lastElement # None THEN addElement(p, lastElement[1]) ELSE p,
                   TRUE, TRUE, None, TRUE))))

savePreview(projector) == Post(projector, FALSE, TRUE, None, FALSE)

\* addElementToPreview as it would be if the new preview were not saved.
addElementToPreviewUnsaved(projector, element) ==
    Untouched([projector EXCEPT !.elements_preview = Append(@, element)])

addElementToPreview(projector, element) ==
    Post([projector EXCEPT !.elements_preview = Append(@, element)],
         FALSE, TRUE, None, FALSE)

\* The step of projectOnMultiple as it would be if the other projectors were left alone.
projectOnMultipleStepOnlyAdding(given, projector, element) ==
    IF projector.id \in given
    THEN projectOn(projector, [kind |-> "element", element |-> element])
    ELSE Untouched(projector)

\* projectOnMultiple, for one projector of the store's iteration.
projectOnMultipleStep(given, projector, element) ==
    IF projector.id \in given
    THEN projectOn(projector, [kind |-> "element", element |-> element])
    ELSE IF isElementShown(projector, element)
         THEN removeFrom(projector, [kind |-> "element", element |-> element])
         ELSE Untouched(projector)

RECURSIVE Concat(_, _)
\* The sequences f[id] of the ids, in the order of the ids, one after the other.
Concat(f, ids) ==
    IF ids = {} THEN <<>>
    ELSE LET first == CHOOSE x \in ids : \A y \in ids : x <= y
         IN  f[first] \o Concat(f, ids \ {first})

projectOnMultiple(store, given, element) ==
    With([id \in DOMAIN store |-> projectOnMultipleStep(given, store[id], element)],
         LAMBDA out :
            [store    |-> [id \in DOMAIN store |-> out[id].projector],
             requests |-> Concat([id \in DOMAIN store |-> out[id].requests], DOMAIN store),
             thrown   |-> \E id \in DOMAIN store : out[id].thrown])

\* ---------------------------------------------------------------- sizes

\* The size of a history entry: its elements, and one for an empty entry.
EntrySize(entry) == Max(1, Len(entry))

RECURSIVE HistorySize(_)
HistorySize(history) ==
    IF history = <<>> THEN 0 ELSE EntrySize(Head(history)) + HistorySize(Tail(history))

Size(projector) ==
    Len(projector.elements) + Len(projector.elements_preview)
    + HistorySize(projector.elements_history)

RECURSIVE TotalSize(_, _)
TotalSize(store, ids) ==
    IF ids = {} THEN 0
    ELSE LET id == CHOOSE x \in ids : TRUE
         IN  Size(store[id]) + TotalSize(store, ids \ {id})

Bounded(store) ==
    TotalSize(store, DOMAIN store)
        <= (IF Cardinality(DOMAIN store) = 1 THEN MaxTotal ELSE MaxStore)

RECURSIVE Histories(_)
\* The histories of size at most n.
Histories(n) ==
    {<<>>} \cup
    UNION { { <<entry>> \o rest : rest \in Histories(n - EntrySize(entry)) } :
            entry \in { e \in SeqsUpTo(Elements, n) : EntrySize(e) <= n } }

\* The projectors with the given id of size at most n.
ProjectorStates(id, n) ==
    UNION { UNION { { [id |-> id, elements |-> el, elements_preview |-> pv,
                       elements_history |-> h] :
                      h \in Histories(n - Len(el) - Len(pv)) } :
                    pv \in SeqsUpTo(Elements, n - Len(el)) } :
            el \in SeqsUpTo(Elements, n) }

NonStable(elements) == SelectSeq(elements, LAMBDA x : ~x.stable)

Stable(elements) == SelectSeq(elements, LAMBDA x : x.stable)

NoElement == None

Label(op, ps, e, i) == [op |-> op, ps |-> ps, e |-> e, i |-> i]

NoTrip == [stage |-> 0, p |-> 0, shown |-> <<>>]

\* The server takes no part: it holds no projector and is sent nothing.
NoServer == [server |-> <<>>, inflight |-> <<>>]

\* The login mask is not on the page.
NoLoginMask == <<>>

\* ---------------------------------------------------------------- states

\* A store of one projector or of two, in any state; nothing invoked yet.
InitAny ==
    /\ \/ \E a \in ProjectorStates(1, MaxTotal) : projectors = (1 :> a)
       \/ \E a \in ProjectorStates(1, MaxStore) :
             \E b \in ProjectorStates(2, MaxStore - Size(a)) :
                projectors = (1 :> a) @@ (2 :> b)
    /\ sent = <<>>
    /\ thrown = FALSE
    /\ last = Label("init", {}, NoElement, 0)
    /\ trip = NoTrip
    /\ remote = NoServer
    /\ loginMask = NoLoginMask

\* Projectors that show at most one non-stable element each.
Init ==
    /\ InitAny
    /\ \A id \in DOMAIN projectors : Len(NonStable(projectors[id].elements)) <= 1

\* ---------------------------------------------------------------- operations

\* The outcome out of an operation on projector id becomes the state.
Done(id, out, label, nextTrip) ==
    /\ projectors' = [projectors EXCEPT ![id] = out.projector]
    /\ Bounded(projectors')
    /\ sent' = out.requests
    /\ thrown' = out.thrown
    /\ last' = label
    /\ trip' = nextTrip
    /\ UNCHANGED <<remote, loginMask>>

ProjectOn ==
    \E id \in DOMAIN projectors, obj \in Objs :
        Done(id, projectOn(projectors[id], obj),
             Label("projectOn", {id}, Some(getProjectorElement(obj)), 0), NoTrip)

RemoveFrom ==
    \E id \in DOMAIN projectors, obj \in Objs :
        Done(id, removeFrom(projectors[id], obj),
             Label("removeFrom", {id}, Some(getProjectorElement(obj)), 0), NoTrip)

ProjectOnMultiple ==
    \E given \in SUBSET DOMAIN projectors, element \in Elements :
        With(projectOnMultiple(projectors, given, element), LAMBDA out :
            /\ projectors' = out.store
            /\ Bounded(projectors')
            /\ sent' = out.requests
            /\ thrown' = out.thrown
            /\ last' = Label("projectOnMultiple", given, Some(element), 0)
            /\ trip' = NoTrip
            /\ UNCHANGED <<remote, loginMask>>)

\* The indices tried: from one before the preview to one past its end.
PreviewIndices(projector) == (0 - 1) .. Len(projector.elements_preview)

ProjectPreviewSlide ==
    \E id \in DOMAIN projectors :
      \E previewIndex \in PreviewIndices(projectors[id]) :
        Done(id, projectPreviewSlide(projectors[id], previewIndex),
             Label("projectPreviewSlide", {id}, NoElement, previewIndex), NoTrip)

ProjectNextSlide ==
    \E id \in DOMAIN projectors :
        Done(id, projectNextSlide(projectors[id]),
             Label("projectNextSlide", {id}, NoElement, 0),
             IF trip.stage = 1 /\ trip.p = id
             THEN [trip EXCEPT !.stage = 2] ELSE NoTrip)

ProjectPreviousSlide ==
    \E id \in DOMAIN projectors :
        Done(id, projectPreviousSlide(projectors[id]),
             Label("projectPreviousSlide", {id}, NoElement, 0),
             IF Len(projectors[id].elements_history) > 0
             THEN [stage |-> 1, p |-> id, shown |-> NonStable(projectors[id].elements)]
             ELSE NoTrip)

SavePreview ==
    \E id \in DOMAIN projectors :
        Done(id, savePreview(projectors[id]),
             Label("savePreview", {id}, NoElement, 0), NoTrip)

AddElementToPreview ==
    \E id \in DOMAIN projectors, element \in Elements :
        Done(id, addElementToPreview(projectors[id], element),
             Label("addElementToPreview", {id}, Some(element), 0), NoTrip)

\* projectRequest called on its own for a projector's elements and preview,
\* with every combination of its two history arguments. It reads nothing but
\* its arguments and every projector is an initial state, so it is called
\* before any operation.
CallProjectRequestWith(id, appendToHistory, deleteLastHistroyElement) ==
    LET r == projectRequest(projectors[id], Some(projectors[id].elements),
                            Some(projectors[id].elements_preview), appendToHistory,
                            deleteLastHistroyElement)
    IN  /\ sent' = r.posted
        /\ thrown' = r.thrown
        /\ last' = Label("projectRequest", {id}, NoElement, 0)
        /\ trip' = NoTrip
        /\ UNCHANGED <<projectors, remote, loginMask>>

CallProjectRequest ==
    /\ last.op = "init"
    /\ \E id \in DOMAIN projectors :
      \E appendToHistory \in {None, Some(projectors[id].elements)},
         deleteLastHistroyElement \in BOOLEAN :
        CallProjectRequestWith(id, appendToHistory, deleteLastHistroyElement)

Next ==
    \/ ProjectOn
    \/ RemoveFrom
    \/ ProjectOnMultiple
    \/ ProjectPreviewSlide
    \/ ProjectNextSlide
    \/ ProjectPreviousSlide
    \/ SavePreview
    \/ AddElementToPreview

NextRequest ==
    \/ Next
    \/ CallProjectRequest

\* The operations from projectors that show at most one non-stable element.
Spec == Init /\ [][Next]_vars

\* The operations from any projectors.
SpecAny == InitAny /\ [][Next]_vars

\* The operations and projectRequest on its own, from any projectors.
SpecRequest == InitAny /\ [][NextRequest]_vars

\* removeFrom given an IdentifiableProjectorElement itself: the caller sets its
\* stable flag, and name and id identify the elements it stands for.
RemoveFromGiven ==
    \E id \in DOMAIN projectors, element \in Elements, stable \in BOOLEAN :
        With([kind |-> "element", element |-> [element EXCEPT !.stable = stable]],
             LAMBDA obj :
                Done(id, removeFrom(projectors[id], obj),
                     Label("removeFrom", {id}, Some(getProjectorElement(obj)), 0),
                     NoTrip))

NextGiven ==
    \/ Next
    \/ RemoveFromGiven

\* The operations, removeFrom with any element given, from any projectors.
SpecGiven == InitAny /\ [][NextGiven]_vars

\* ---------------------------------------------------------------- server

\* The server's projector after a request: the elements and the preview it
\* carries replace the projector's, append_to_history becomes the last entry
\* of the history, delete_last_history_element removes the last entry.
applyRequest(projector, body) ==
    [projector EXCEPT
        !.elements = IF "elements" \in DOMAIN body THEN body.elements ELSE @,
        !.elements_preview = IF "preview" \in DOMAIN body THEN body.preview ELSE @,
        !.elements_history =
            IF "append_to_history" \in DOMAIN body
            THEN Append(@, body.append_to_history)
            ELSE IF "delete_last_history_element" \in DOMAIN body /\ Len(@) > 0
                 THEN SubSeq(@, 1, Len(@) - 1)
                 ELSE @]

\* The projector a request is addressed to.
Addressee(request) == request.path[2]

\* A store of one projector, as the server has it; nothing is on its way.
InitStore ==
    /\ \E a \in ProjectorStates(1, MaxStore) : projectors = (1 :> a)
    /\ sent = <<>>
    /\ thrown = FALSE
    /\ last = Label("init", {}, NoElement, 0)
    /\ trip = NoTrip
    /\ remote = [server |-> projectors, inflight |-> <<>>]
    /\ loginMask = NoLoginMask

\* projectPreviousSlide, its request on the way to the server.
PostPreviousSlide ==
    /\ Len(inflight) < MaxInflight
    /\ \E id \in DOMAIN projectors :
        With(projectPreviousSlide(projectors[id]), LAMBDA out :
            /\ projectors' = [projectors EXCEPT ![id] = out.projector]
            /\ Bounded(projectors')
            /\ sent' = out.requests
            /\ thrown' = out.thrown
            /\ last' = Label("projectPreviousSlide", {id}, NoElement, 0)
            /\ trip' = NoTrip
            /\ remote' = [remote EXCEPT !.inflight = @ \o out.requests]
            /\ UNCHANGED loginMask)

\* The server applies the request that reached it first.
ServerApplies ==
    /\ inflight # <<>>
    /\ remote' = [server   |-> [server EXCEPT ![Addressee(Head(inflight))] =
                                   applyRequest(@, Head(inflight).body)],
                  inflight |-> Tail(inflight)]
    /\ last' = Label("serverApplies", {Addressee(Head(inflight))}, NoElement, 0)
    /\ UNCHANGED <<projectors, sent, thrown, trip, loginMask>>

\* The store's authoritative update: its projectors become the server's.
StoreUpdates ==
    /\ projectors # server
    /\ projectors' = server
    /\ last' = Label("storeUpdates", DOMAIN server, NoElement, 0)
    /\ UNCHANGED <<sent, thrown, trip, remote, loginMask>>

NextStore ==
    \/ PostPreviousSlide
    \/ ServerApplies
    \/ StoreUpdates

\* projectPreviousSlide, the server and the store's updates, in any order.
SpecStore == InitStore /\ [][NextStore]_vars

\* ---------------------------------------------------------------- LoginMaskComponent

\* Validators.maxLength(128)
MaxLength == 128

\* The values of a form control, each by its length.
Lengths == {0, MaxLength, MaxLength + 1}

\* The users the operator may be.
Users == { [id |-> 1], [id |-> 2] }

\* The errors the login operation may raise.
LoginErrors == {"e1", "e2"}

\* Validators.required and Validators.maxLength(128) on one control.
controlErrors(value) ==
    (IF value = 0 THEN {"required"} ELSE {})
    \cup (IF value > MaxLength THEN {"maxlength"} ELSE {})

\* FormGroup.valid: no control has an error and none is set on the group.
valid(loginForm) ==
    /\ controlErrors(loginForm.username) = {}
    /\ controlErrors(loginForm.password) = {}
    /\ loginForm.errors = {}

\* createForm: both controls empty.
createForm == [username |-> 0, password |-> 0, errors |-> {}]

\* A calls redirectUser, guestLogin or login of the authService.
redirectUser(id) == [op |-> "redirectUser", id |-> id]

guestLoginCall == [op |-> "guestLogin"]

loginCall(username, password) ==
    [op |-> "login", username |-> username, password |-> password]

\* What a handler leaves: the component, the operator, the calls it made of
\* the authService and whether it raised an error.
Left(c, o, calls, raised) ==
    [component |-> c, operator |-> o, calls |-> calls, raised |-> raised]

\* clearOperatorSubscription as it would be without the test of the subscription.
clearOperatorSubscriptionUntested(c, o) ==
    IF c.operatorSubscription # None
    THEN Left([c EXCEPT !.operatorSubscription = None],
              [o EXCEPT !.subscribed = FALSE], <<>>, FALSE)
    ELSE Left(c, o, <<>>, TRUE)

\* clearOperatorSubscription as it would be if it only forgot the subscription.
clearOperatorSubscriptionForgetting(c, o) ==
    Left([c EXCEPT !.operatorSubscription = None], o, <<>>, FALSE)

clearOperatorSubscription(c, o) ==
    IF c.operatorSubscription # None
    THEN Left([c EXCEPT !.operatorSubscription = None],
              [o EXCEPT !.subscribed = FALSE], <<>>, FALSE)
    ELSE Left(c, o, <<>>, FALSE)

\* The subscriber of ngOnInit, given the user the operator emits.
subscriber(c, o, user) ==
    IF user # None
    THEN With(clearOperatorSubscription(c, o), LAMBDA cleared :
            Left(cleared.component, cleared.operator,
                 <<redirectUser(user[1].id)>>, cleared.raised))
    ELSE Left(c, o, <<>>, FALSE)

\* ngOnInit: subscribe runs the subscriber at once with the user of an
\* operator that replays it; then the subscription is assigned.
ngOnInit(c, o) ==
    With(IF o.replays THEN subscriber(c, o, o.user) ELSE Left(c, o, <<>>, FALSE),
         LAMBDA first :
            Left([first.component EXCEPT !.operatorSubscription = Some(1),
                                         !.lifecycle = "initialised"],
                 [first.operator EXCEPT !.subscribed = TRUE],
                 first.calls, first.raised))

ngOnDestroy(c, o) ==
    With(clearOperatorSubscription(c, o), LAMBDA cleared :
        Left([cleared.component EXCEPT !.lifecycle = "destroyed"],
             cleared.operator, cleared.calls, cleared.raised))

\* The callback formLogin hands to login, as it would be if it did nothing.
takeControlIdle(c, o) == Left(c, o, <<>>, FALSE)

\* The callback formLogin hands to login: we take control, not the subscription.
takeControl(c, o) == clearOperatorSubscription(c, o)

\* OverlayService.showSpinner and hideSpinner
showSpinner(blocking) == Some([blocking |-> blocking])

hideSpinner == None

\* formLogin up to the call of login.
formLogin(c, o) ==
    Left([c EXCEPT !.loginErrorMsg = ""], o,
         <<loginCall(c.loginForm.username, c.loginForm.password)>>, FALSE)

\* The catch of formLogin as it would be if it dropped the error raised.
catchLoginDropping(c, e) ==
    [c EXCEPT !.loginForm.errors = {"notFound"}]

\* The catch of formLogin, but for hiding the spinner.
catchLogin(c, e) ==
    [c EXCEPT !.loginForm.errors = {"notFound"}, !.loginErrorMsg = e]

guestLogin(c, o) == Left(c, o, <<guestLoginCall>>, FALSE)

\* The redirectUser calls among the calls of a handler.
Redirects(calls) == SelectSeq(calls, LAMBDA call : call.op = "redirectUser")

\* A blocking spinner keeps the user from the form and its buttons.
Blocked == overlayService # None /\ overlayService[1].blocking

\* The users the operator may emit: null or a user.
MaybeUser == {None} \cup { Some(u) : u \in Users }

\* The component constructed, on a page whose operator holds any user; the
\* projector service takes no part.
InitLogin ==
    /\ \E o \in [user : MaybeUser, guestsEnabled : BOOLEAN,
                   replays : BOOLEAN, subscribed : {FALSE}] :
          loginMask =
            [component |-> [lifecycle |-> "constructed", loginErrorMsg |-> "",
                            loginForm |-> createForm, operatorSubscription |-> None],
             operator |-> o,
             authService |-> [login |-> "idle", redirects |-> 0, during |-> 0,
                              called |-> <<>>],
             overlayService |-> None]
    /\ projectors = <<>>
    /\ sent = <<>>
    /\ thrown = FALSE
    /\ last = Label("init", {}, NoElement, 0)
    /\ trip = NoTrip
    /\ remote = NoServer

\* What a handler left becomes the state; the login operation is in phase
\* login. Of the authService: redirects counts the calls of redirectUser by the
\* component, during those made since login was called and before it returned.
Handled(out, login, spinner, label) ==
    /\ loginMask' =
          [component |-> out.component,
           operator |-> out.operator,
           authService |->
              [login |-> login,
               redirects |-> authService.redirects + Len(Redirects(out.calls)),
               during |-> IF label.op = "formLogin" THEN 0
                          ELSE IF authService.login \in {"pending", "control"}
                               THEN authService.during + Len(Redirects(out.calls))
                               ELSE authService.during,
               called |-> out.calls],
           overlayService |-> spinner]
    /\ thrown' = out.raised
    /\ last' = label
    /\ UNCHANGED projecting

NgOnInit ==
    /\ component.lifecycle = "constructed"
    /\ Handled(ngOnInit(component, operator), authService.login, overlayService,
               Label("ngOnInit", {}, NoElement, 0))

\* The operator emits a user, or null, to its subscribers.
OperatorEmits ==
    /\ authService.redirects < MaxRedirects
    /\ \E user \in MaybeUser :
        With([operator EXCEPT !.user = user], LAMBDA o :
            Handled(IF o.subscribed THEN subscriber(component, o, user)
                    ELSE Left(component, o, <<>>, FALSE),
                    authService.login, overlayService,
                    Label("operatorEmits", {}, user, 0)))

\* The user changes the values of the form, which is validated anew.
SetForm ==
    /\ component.lifecycle = "initialised"
    /\ ~Blocked
    /\ \E username \in Lengths, password \in Lengths :
        Handled(Left([component EXCEPT !.loginForm =
                         [username |-> username, password |-> password, errors |-> {}]],
                     operator, <<>>, FALSE),
                authService.login, overlayService,
                Label("setForm", {}, NoElement, 0))

FormLogin ==
    /\ component.lifecycle = "initialised"
    /\ ~Blocked
    /\ Handled(formLogin(component, operator), "pending", showSpinner(TRUE),
               Label("formLogin", {}, NoElement, 0))

\* The login operation calls the callback it was given.
LoginTakesControl ==
    /\ authService.login = "pending"
    /\ Handled(takeControl(component, operator), "control", overlayService,
               Label("takeControl", {}, NoElement, 0))

\* The login operation raises an error, which formLogin catches.
LoginFails ==
    /\ authService.login \in {"pending", "control"}
    /\ \E e \in LoginErrors :
        Handled(Left(catchLogin(component, e), operator, <<>>, FALSE),
                "idle", hideSpinner, Label("loginFails", {}, Some(e), 0))

\* The login operation, in control, redirects and returns to formLogin.
LoginSucceeds ==
    /\ authService.login = "control"
    /\ Handled(Left(component, operator, <<>>, FALSE), "redirected", overlayService,
               Label("loginSucceeds", {}, NoElement, 0))

GuestLogin ==
    /\ component.lifecycle = "initialised"
    /\ ~Blocked
    /\ Handled(guestLogin(component, operator), authService.login, showSpinner(FALSE),
               Label("guestLogin", {}, NoElement, 0))

NgOnDestroy ==
    /\ component.lifecycle \in {"initialised", "destroyed"}
    /\ Handled(ngOnDestroy(component, operator), authService.login, overlayService,
               Label("ngOnDestroy", {}, NoElement, 0))

NextLogin ==
    \/ NgOnInit
    \/ OperatorEmits
    \/ SetForm
    \/ FormLogin
    \/ LoginTakesControl
    \/ LoginFails
    \/ LoginSucceeds
    \/ GuestLogin
    \/ NgOnDestroy

\* The login mask from its construction to its destruction and after.
SpecLogin == InitLogin /\ [][NextLogin]_vars

\* ---------------------------------------------------------------- requests

\* The requests of a sequence that are addressed to projector id.
RequestsTo(requests, id) == SelectSeq(requests, LAMBDA r : r.path = Path(id))

Has(request, key) == key \in DOMAIN request.body

\* ---------------------------------------------------------------- claims

\* The operation invoked last, on projector id.
Invoked(op, id) == last.op = op /\ last.ps = {id}

\* C1: from projectors that show at most one non-stable element each, every
\* sequence of operations leaves each projector showing at most one.
AtMostOneNonStable ==
    \A id \in DOMAIN projectors : Len(NonStable(projectors[id].elements)) <= 1

\* projectPreviousSlide took the one non-stable element shown off a projector
\* and put the one of the last history entry there.
AtMostOneNonStableWitness ==
    \E id \in DOMAIN projectors :
        /\ Invoked("projectPreviousSlide", id)
        /\ Len(sent) = 1
        /\ Len(trip.shown) = 1
        /\ Len(NonStable(projectors[id].elements)) = 1

\* C2: projectOn of a non-stable element e leaves e the only non-stable element
\* shown, and the non-stable elements shown before are, in their order, the
\* append_to_history of the one request sent (none were shown: no such field).
ProjectOnNonStable ==
    [][\A id \in DOMAIN projectors, e \in Elements :
         (last' = Label("projectOn", {id}, Some(e), 0) /\ ~e.stable) =>
            LET R == NonStable(projectors[id].elements) IN
            /\ NonStable(projectors'[id].elements) = <<e>>
            /\ Len(sent') = 1
            /\ sent'[1].path = Path(id)
            /\ R # <<>> => /\ Has(sent'[1], "append_to_history")
                           /\ sent'[1].body.append_to_history = R
            /\ R = <<>> => ~Has(sent'[1], "append_to_history")]_vars

\* projectOn of a non-stable element took two non-stable elements off.
ProjectOnNonStableWitness ==
    \E id \in DOMAIN projectors :
        /\ Invoked("projectOn", id)
        /\ ~last.e[1].stable
        /\ Len(sent) = 1
        /\ Has(sent[1], "append_to_history")
        /\ Len(sent[1].body.append_to_history) = 2

\* C3: projectOn of a stable element e appends e to the elements shown and
\* leaves the others, the preview and the history as they were; its one
\* request carries the elements and nothing else.
ProjectOnStable ==
    [][\A id \in DOMAIN projectors, e \in Elements :
         (last' = Label("projectOn", {id}, Some(e), 0) /\ e.stable) =>
            /\ projectors'[id].elements = Append(projectors[id].elements, e)
            /\ projectors'[id].elements_preview = projectors[id].elements_preview
            /\ projectors'[id].elements_history = projectors[id].elements_history
            /\ Len(sent') = 1
            /\ sent'[1].path = Path(id)
            /\ DOMAIN sent'[1].body = {"elements"}
            /\ sent'[1].body.elements = projectors'[id].elements]_vars

\* projectOn of a stable element on a projector that shows a non-stable one.
ProjectOnStableWitness ==
    \E id \in DOMAIN projectors :
        /\ Invoked("projectOn", id)
        /\ last.e[1].stable
        /\ Len(sent) = 1
        /\ Len(NonStable(projectors[id].elements)) >= 1
        /\ Len(projectors[id].elements_preview) >= 1

\* C4: right after removeFrom(projector, e), isProjectedOn(e, projector) is false.
RemoveFromThenNotProjected ==
    \A id \in DOMAIN projectors :
        Invoked("removeFrom", id) =>
            ~isProjectedOn([kind |-> "element", element |-> last.e[1]], projectors[id])

\* removeFrom took two occurrences of a non-stable element off.
RemoveFromThenNotProjectedWitness ==
    \E id \in DOMAIN projectors :
        /\ Invoked("removeFrom", id)
        /\ Len(sent) = 1
        /\ Has(sent[1], "append_to_history")
        /\ Len(sent[1].body.append_to_history) = 2

\* C5: projectPreviewSlide with an empty preview, or with an index at or past
\* the end of the preview or below 0, changes no projector and sends nothing.
PreviewSlideOutOfRange ==
    [][\A id \in DOMAIN projectors :
         (/\ last'.op = "projectPreviewSlide"
          /\ last'.ps = {id}
          /\ \/ Len(projectors[id].elements_preview) = 0
             \/ last'.i >= Len(projectors[id].elements_preview)
             \/ last'.i < 0) =>
            /\ projectors' = projectors
            /\ sent' = <<>>]_vars

\* C6 as stated: projectPreviousSlide on a projector with a history, followed at
\* once by projectNextSlide, leaves the non-stable elements shown as they were
\* before the two.
PreviousThenNextRestoresAll ==
    trip.stage = 2 => NonStable(projectors[trip.p].elements) = trip.shown

\* C6: projectPreviousSlide on a projector that has a history and shows exactly
\* one non-stable element, followed at once by projectNextSlide, leaves that
\* element the only non-stable element shown.
PreviousThenNextRestores ==
    (trip.stage = 2 /\ Len(trip.shown) = 1) =>
        NonStable(projectors[trip.p].elements) = trip.shown

\* The two were invoked on a projector that showed a non-stable element other
\* than the one of its last history entry.
PreviousThenNextRestoresWitness ==
    /\ trip.stage = 2
    /\ Len(trip.shown) = 1
    /\ LET history == projectors[trip.p].elements_history
       IN  /\ Len(history[Len(history)]) > 0
           /\ history[Len(history)][1] # trip.shown[1]
           /\ ~history[Len(history)][1].stable

\* C7: after projectOnMultiple(given, element) a projector of the store shows
\* element iff it is one of the given; a projector not given that did not show
\* element is as it was, and no request is addressed to it.
ProjectOnMultipleExactly ==
    [][\A given \in SUBSET DOMAIN projectors, e \in Elements :
         last' = Label("projectOnMultiple", given, Some(e), 0) =>
            \A id \in DOMAIN projectors :
                /\ isElementShown(projectors'[id], e) <=> id \in given
                /\ (id \notin given /\ ~isElementShown(projectors[id], e)) =>
                      /\ projectors'[id] = projectors[id]
                      /\ RequestsTo(sent', id) = <<>>]_vars

\* projectOnMultiple put the element on one projector and took it off another.
ProjectOnMultipleExactlyWitness ==
    /\ last.op = "projectOnMultiple"
    /\ Cardinality(last.ps) = 1
    /\ Len(sent) = 2
    /\ \E id \in DOMAIN projectors \ last.ps : RequestsTo(sent, id) # <<>>

\* C8: no request posted carries both append_to_history and
\* delete_last_history_element; projectRequest given both raises its error,
\* and what raises the error posts nothing.
NeverAppendAndDelete ==
    [][/\ \A k \in 1..Len(sent') :
             ~(Has(sent'[k], "append_to_history")
               /\ Has(sent'[k], "delete_last_history_element"))
       /\ thrown' => sent' = <<>>
       /\ \A id \in DOMAIN projectors :
             CallProjectRequestWith(id, Some(projectors[id].elements), TRUE) =>
                (projectors[id].elements # <<>> => thrown')]_vars

\* projectRequest was given elements to append and the deletion, and raised the error.
NeverAppendAndDeleteWitness ==
    /\ last.op = "projectRequest"
    /\ thrown
    /\ sent = <<>>

\* A projector's shown elements or preview differ between two states.
Changed(before, after) ==
    \/ before.elements # after.elements
    \/ before.elements_preview # after.elements_preview

\* The operation invoked changes projector id, whatever its arguments.
ChangesState(op, projector, label) ==
    \/ op \in {"projectOn", "savePreview", "addElementToPreview"}
    \/ op = "removeFrom" /\ isElementShown(projector, label.e[1])
    \/ op = "projectPreviewSlide"
         /\ 0 <= label.i /\ label.i < Len(projector.elements_preview)
    \/ op = "projectPreviousSlide" /\ Len(projector.elements_history) > 0

\* C9: each state-changing operation posts exactly one request, to the path of
\* its projector; and an operation that changes what a projector shows or
\* previews posts a request to the path of that projector.
OneRequestPerChange ==
    [][\A id \in DOMAIN projectors :
         /\ (last'.ps = {id} /\ ChangesState(last'.op, projectors[id], last')) =>
               /\ Len(sent') = 1
               /\ sent'[1].path = Path(id)
         /\ Changed(projectors[id], projectors'[id]) =>
               Len(RequestsTo(sent', id)) = 1]_vars

\* addElementToPreview lengthened a preview and posted it.
OneRequestPerChangeWitness ==
    \E id \in DOMAIN projectors :
        /\ Invoked("addElementToPreview", id)
        /\ Len(sent) = 1
        /\ Len(projectors[id].elements_preview) >= 2
        /\ sent[1].body.preview = projectors[id].elements_preview

\* What projectPreviewSlide with a valid index does to the projector, and the
\* path, elements and preview of its request.
PreviewSlideMoves(before, after, i, requests) ==
    LET R == NonStable(before.elements)
        preview == before.elements_preview
    IN  /\ after.elements = Append(Stable(before.elements), preview[i + 1])
        /\ after.elements_preview = SubSeq(preview, 1, i) \o SubSeq(preview, i + 2, Len(preview))
        /\ after.elements_history = before.elements_history
        /\ Len(requests) = 1
        /\ requests[1].path = Path(before.id)
        /\ Has(requests[1], "elements") /\ requests[1].body.elements = after.elements
        /\ Has(requests[1], "preview")
        /\ requests[1].body.preview = after.elements_preview

ValidPreviewIndex(projector, label) ==
    /\ label.op = "projectPreviewSlide"
    /\ label.ps = {projector.id}
    /\ 0 <= label.i
    /\ label.i < Len(projector.elements_preview)

\* C10 as stated: the request of projectPreviewSlide with a valid index carries
\* the elements, the preview and append_to_history, the non-stable elements
\* taken off, also when there are none.
PreviewSlideAlwaysAppends ==
    [][\A id \in DOMAIN projectors :
         ValidPreviewIndex(projectors[id], last') =>
            /\ PreviewSlideMoves(projectors[id], projectors'[id], last'.i, sent')
            /\ DOMAIN sent'[1].body = {"elements", "preview", "append_to_history"}
            /\ sent'[1].body.append_to_history = NonStable(projectors[id].elements)]_vars

\* C10: projectPreviewSlide with a valid index i takes the non-stable elements
\* R off, shows the element at preview position i and leaves the rest of the
\* preview in order; its request carries the elements, the preview and, when
\* R is not empty, append_to_history R; when R is empty it carries no
\* append_to_history.
PreviewSlideProjects ==
    [][\A id \in DOMAIN projectors :
         ValidPreviewIndex(projectors[id], last') =>
            LET R == NonStable(projectors[id].elements) IN
            /\ PreviewSlideMoves(projectors[id], projectors'[id], last'.i, sent')
            /\ R # <<>> =>
                  /\ DOMAIN sent'[1].body = {"elements", "preview", "append_to_history"}
                  /\ sent'[1].body.append_to_history = R
            /\ R = <<>> => DOMAIN sent'[1].body = {"elements", "preview"}]_vars

\* projectPreviewSlide took the second element of a preview of two and put it
\* after a stable element, with nothing to append to the history.
PreviewSlideProjectsWitness ==
    \E id \in DOMAIN projectors :
        /\ Invoked("projectPreviewSlide", id)
        /\ last.i = 1
        /\ Len(sent) = 1
        /\ ~Has(sent[1], "append_to_history")
        /\ Len(projectors[id].elements) = 2
        /\ projectors[id].elements[1].stable
        /\ ~projectors[id].elements[2].stable
        /\ Len(projectors[id].elements_preview) = 1

\* The requests of a sequence that carry delete_last_history_element.
Deleting(requests) ==
    SelectSeq(requests, LAMBDA r : Has(r, "delete_last_history_element"))

\* C11: the requests of an operation carry delete_last_history_element iff the
\* operation is projectPreviousSlide on a projector that has a history, and
\* then its one request does; and no operation removes or rewrites an entry of
\* a projector's history.
DeleteOnlyByPreviousSlide ==
    [][/\ \A id \in DOMAIN projectors :
             /\ (last'.op = "projectPreviousSlide" /\ last'.ps = {id}
                    /\ Len(projectors[id].elements_history) > 0)
                  => /\ Len(sent') = 1
                     /\ Len(Deleting(sent')) = 1
                     /\ sent'[1].path = Path(id)
             /\ Deleting(RequestsTo(sent', id)) # <<>>
                  => /\ last'.op = "projectPreviousSlide" /\ last'.ps = {id}
                     /\ Len(projectors[id].elements_history) > 0
             /\ projectors'[id].elements_history = projectors[id].elements_history]_vars

\* projectPreviousSlide asked for the deletion of the last of two history entries.
DeleteOnlyByPreviousSlideWitness ==
    \E id \in DOMAIN projectors :
        /\ Invoked("projectPreviousSlide", id)
        /\ Len(Deleting(sent)) = 1
        /\ Len(projectors[id].elements_history) = 2

\* C18: projectPreviousSlide on a projector that has a history puts the
\* non-stable elements shown, in the order they were shown, in front of the
\* preview, shows the first element of the last history entry if it has one,
\* and sends the elements, the preview and delete_last_history_element, by
\* which the last history entry is removed.
PreviousSlidePrependsInOrder ==
    [][\A id \in DOMAIN projectors :
         (/\ last'.op = "projectPreviousSlide"
          /\ last'.ps = {id}
          /\ Len(projectors[id].elements_history) > 0) =>
            LET before == projectors[id]
                after  == projectors'[id]
                entry  == before.elements_history[Len(before.elements_history)]
            IN  /\ after.elements_preview =
                      NonStable(before.elements) \o before.elements_preview
                /\ after.elements =
                      Stable(before.elements)
                      \o (IF entry # <<>> THEN <<entry[1]>> ELSE <<>>)
                /\ Len(sent') = 1
                /\ sent'[1].path = Path(id)
                /\ DOMAIN sent'[1].body =
                      {"elements", "preview", "delete_last_history_element"}
                /\ sent'[1].body.elements = after.elements
                /\ sent'[1].body.preview = after.elements_preview
                /\ sent'[1].body.delete_last_history_element = TRUE]_vars

\* s is the beginning of t.
IsPrefix(s, t) == Len(s) <= Len(t) /\ SubSeq(t, 1, Len(s)) = s

\* The stable elements shown that an operation may take off: those identified
\* by the element of removeFrom, or of projectOnMultiple, which calls it.
MayRemove(label, x) ==
    /\ label.op \in {"removeFrom", "projectOnMultiple"}
    /\ elementIdentifies(label.e[1], x)

\* C20: every operation leaves the stable elements a projector shows where
\* they are, in their order, but for those that removeFrom is asked to remove;
\* projectOn of a non-stable element leaves exactly them, and savePreview and
\* addElementToPreview leave the elements shown as they are.
StableElementsStay ==
    [][\A id \in DOMAIN projectors :
         LET before == projectors[id].elements
             after  == projectors'[id].elements
         IN  /\ IsPrefix(SelectSeq(Stable(before), LAMBDA x : ~MayRemove(last', x)),
                         Stable(after))
             /\ (last'.op = "projectOn" /\ ~last'.e[1].stable) =>
                    Stable(after) = Stable(before)
             /\ last'.op \in {"savePreview", "addElementToPreview"} =>
                    after = before]_vars

\* projectPreviewSlide took a non-stable element off a projector that shows a
\* stable one before it, and the stable one is still the first shown.
StableElementsStayWitness ==
    \E id \in DOMAIN projectors :
        /\ Invoked("projectPreviewSlide", id)
        /\ Len(sent) = 1
        /\ Has(sent[1], "append_to_history")
        /\ Len(projectors[id].elements) = 2
        /\ projectors[id].elements[1].stable

\* The last entry of a history.
LastEntry(history) == history[Len(history)]

\* C19: when the server applies a request that carries
\* delete_last_history_element and deletes an entry that has elements, the
\* last of the elements the request carries is the first element of that entry.
DeletedEntryWasProjected ==
    [][(/\ inflight # <<>>
        /\ inflight' = Tail(inflight)
        /\ Has(Head(inflight), "delete_last_history_element")
        /\ server[Addressee(Head(inflight))].elements_history # <<>>) =>
          LET entry == LastEntry(server[Addressee(Head(inflight))].elements_history)
              shown == Head(inflight).body.elements
          IN  entry # <<>> => (shown # <<>> /\ shown[Len(shown)] = entry[1])]_vars

\* C12: whatever the operator emits, and also when it emits a user while the
\* component subscribes, the watch is cancelled once it has observed a user,
\* and the component calls redirectUser at most once.
WatchRedirectsOnce ==
    /\ authService.redirects <= 1
    /\ authService.redirects >= 1 => ~operator.subscribed

\* Once the callback of login has been invoked the watch is cancelled, stays
\* cancelled and calls redirectUser no more.
CancelledInControl ==
    /\ last'.op = "takeControl" => ~operator'.subscribed
    /\ (~operator.subscribed /\ component.lifecycle # "constructed") =>
          /\ ~operator'.subscribed
          /\ Redirects(authService'.called) = <<>>

InvalidFormNotSubmitted ==
    [][(/\ last'.op = "formLogin"
        /\ \/ controlErrors(component.loginForm.username) # {}
           \/ controlErrors(component.loginForm.password) # {}) =>
          /\ authService'.called = <<>>
          /\ authService'.login = authService.login]_vars

\* C15: formLogin empties loginErrorMsg, shows the blocking spinner and calls
\* login with the values of the form; when login raises e, the spinner is
\* hidden, the form has the error notFound and loginErrorMsg is e; when login
\* succeeds, the spinner stays, the form is as it was, the component calls no
\* redirectUser and loginErrorMsg is empty.
SubmitOutcome ==
    [][/\ last'.op = "formLogin" =>
             /\ component'.loginErrorMsg = ""
             /\ overlayService' = showSpinner(TRUE)
             /\ authService'.called = <<loginCall(component.loginForm.username,
                                                  component.loginForm.password)>>
       /\ last'.op = "loginFails" =>
             /\ overlayService' = None
             /\ component'.loginForm.errors = {"notFound"}
             /\ component'.loginErrorMsg = last'.e[1]
       /\ last'.op = "loginSucceeds" =>
             /\ overlayService' = showSpinner(TRUE)
             /\ component'.loginForm = component.loginForm
             /\ authService'.called = <<>>
             /\ component'.loginErrorMsg = ""]_vars

\* A login succeeded on the form that a failed login had left with its error.
SubmitOutcomeWitness ==
    /\ last.op = "loginSucceeds"
    /\ component.loginForm.errors = {"notFound"}
    /\ component.loginErrorMsg = ""
    /\ overlayService # None

\* C16: guestLogin shows the spinner and calls the guestLogin of the
\* authService when guests are enabled; when they are not it does neither.
GuestLoginOnlyIfEnabled ==
    [][last'.op = "guestLogin" =>
          IF operator.guestsEnabled
          THEN /\ overlayService' = showSpinner(FALSE)
               /\ authService'.called = <<guestLoginCall>>
          ELSE /\ overlayService' = overlayService
               /\ authService'.called = <<>>]_vars

\* C17: ngOnDestroy cancels the watch; once the component is destroyed no
\* emission of the operator makes it call redirectUser; and ngOnDestroy or
\* the callback of login, when the watch is cancelled already, change nothing
\* of the watch and raise no error.
TeardownCancels ==
    [][/\ last'.op = "ngOnDestroy" =>
             /\ ~operator'.subscribed
             /\ component'.operatorSubscription = None
             /\ ~thrown'
       /\ component.lifecycle = "destroyed" =>
             /\ ~operator'.subscribed
             /\ Redirects(authService'.called) = <<>>
       /\ (last'.op \in {"ngOnDestroy", "takeControl"}
              /\ component.operatorSubscription = None) =>
             /\ operator' = operator
             /\ component'.operatorSubscription = None
             /\ ~thrown']_vars

\* The operator emitted a user to a destroyed component, which did not call
\* redirectUser.
TeardownCancelsWitness ==
    /\ last.op = "operatorEmits"
    /\ last.e # None
    /\ component.lifecycle = "destroyed"
    /\ authService.called = <<>>
    /\ authService.redirects = 0

\* How often x occurs in a sequence.
Count(x, elements) == Len(SelectSeq(elements, LAMBDA y : y = x))

\* The append_to_history of the request of an operation, if it has one.
Appended(requests) ==
    IF requests = <<>> \/ ~Has(requests[1], "append_to_history") THEN <<>>
    ELSE requests[1].body.append_to_history

\* The elements of a sequence, as a set.
Range(elements) == { elements[k] : k \in 1..Len(elements) }

====
